---- MODULE Spec2Model ----
(***************************************************************************)
(* The batch-aware embedding cache of OpenClipVitB32: the LRUCache class   *)
(* and the two batched embedding methods that split a batch into cache     *)
(* hits and misses, run the model on the misses and write the results back.*)
(***************************************************************************)
EXTENDS Integers, Sequences, FiniteSets, TLC

\* ---------------------------------------------------------------- bounds
\* The service builds both caches with maxsize=100; the model explores
\* capacities up to MaxCapacity and batches of at most MaxBatch items.
MaxCapacity == 2
MaxBatch == 3
\* Batches of concurrent requests hold at most MaxConcBatch items.
MaxConcBatch == 1

\* ------------------------------------------------------------ input items
Texts == {"a", "b", "c"}

\* Decoded images.  np.array(image.to_pillow()) has a shape and a pixel
\* buffer; im1 and im2 hold the same pixel bytes under different shapes
\* (a 1x2 and a 2x1 picture), im3 holds other bytes.
Images == {"im1", "im2", "im3"}
image_shape == [im1 |-> <<1, 2>>, im2 |-> <<2, 1>>, im3 |-> <<1, 2>>]
tobytes == [im1 |-> "pq", im2 |-> "pq", im3 |-> "qp"]
\* hashlib.md5(...).hexdigest(): one digest per byte string.
md5_hexdigest == [pq |-> "d_pq", qp |-> "d_qp"]

serialize_image(image) == md5_hexdigest[tobytes[image]]

Kinds == {"text", "image"}
Items(kind) == IF kind = "text" THEN Texts ELSE Images
\* The cache key of an item: the text itself, or the image's digest.
Key(kind, item) == IF kind = "text" THEN item ELSE serialize_image(item)

\* The model's embedding of one item (encode_text / encode_image followed by
\* F.normalize and tolist): an opaque value, one per distinct item.
Embed(item) == <<"emb", item>>
None == <<>>

\* Values a direct client of LRUCache may store.
Values == {<<"v1">>, <<"v2">>}

\* ------------------------------------------------------------- LRUCache
\* self.cache is an OrderedDict: a sequence of <<key, value>> pairs with
\* distinct keys, oldest first.
Contains(cache, key) == \E i \in 1..Len(cache) : cache[i][1] = key
IndexOf(cache, key) == CHOOSE i \in 1..Len(cache) : cache[i][1] = key
RemoveAt(cache, i) == SubSeq(cache, 1, i - 1) \o SubSeq(cache, i + 1, Len(cache))
Lookup(cache, key) == cache[IndexOf(cache, key)][2]

\* cache_get: the returned value, and the store afterwards.
cache_get_value(cache, key) ==
    IF Contains(cache, key) THEN Lookup(cache, key) ELSE None

\* cache_get without the re-insertion that marks the key as recently used.
cache_get_no_refresh(cache, key) == cache

\* cache_get that pops the key and never puts it back.
cache_get_pop_only(cache, key) ==
    IF Contains(cache, key) THEN RemoveAt(cache, IndexOf(cache, key)) ELSE cache

cache_get(cache, key) ==
    IF Contains(cache, key)
    THEN Append(RemoveAt(cache, IndexOf(cache, key)), <<key, Lookup(cache, key)>>)
    ELSE cache

\* cache_set with the capacity test off by one (> for >=).
cache_set_gt(cache, key, value, maxsize) ==
    IF Contains(cache, key)
    THEN [cache |-> Append(RemoveAt(cache, IndexOf(cache, key)), <<key, value>>),
          raised |-> FALSE]
    ELSE IF Len(cache) > maxsize
         THEN [cache |-> Append(Tail(cache), <<key, value>>), raised |-> FALSE]
         ELSE [cache |-> Append(cache, <<key, value>>), raised |-> FALSE]

\* cache_set evicting the newest entry (popitem(last=True)).
cache_set_newest(cache, key, value, maxsize) ==
    IF Contains(cache, key)
    THEN [cache |-> Append(RemoveAt(cache, IndexOf(cache, key)), <<key, value>>),
          raised |-> FALSE]
    ELSE IF Len(cache) >= maxsize
         THEN IF Len(cache) = 0
              THEN [cache |-> cache, raised |-> TRUE]
              ELSE [cache |-> Append(SubSeq(cache, 1, Len(cache) - 1), <<key, value>>),
                    raised |-> FALSE]
         ELSE [cache |-> Append(cache, <<key, value>>), raised |-> FALSE]

\* cache_set testing the capacity before it looks for the key.
cache_set_full_first(cache, key, value, maxsize) ==
    LET room == IF Len(cache) >= maxsize /\ Len(cache) > 0 THEN Tail(cache) ELSE cache
    IN  IF Contains(room, key)
        THEN [cache |-> Append(RemoveAt(room, IndexOf(room, key)), <<key, value>>),
              raised |-> FALSE]
        ELSE [cache |-> Append(room, <<key, value>>), raised |-> FALSE]

\* cache_set evicting one entry too early (len + 1 >= maxsize).
cache_set_early(cache, key, value, maxsize) ==
    IF Contains(cache, key)
    THEN [cache |-> Append(RemoveAt(cache, IndexOf(cache, key)), <<key, value>>),
          raised |-> FALSE]
    ELSE IF Len(cache) + 1 >= maxsize /\ Len(cache) > 0
         THEN [cache |-> Append(Tail(cache), <<key, value>>), raised |-> FALSE]
         ELSE [cache |-> Append(cache, <<key, value>>), raised |-> FALSE]

\* cache_set: the store afterwards and whether the call raised.  popitem on
\* an empty OrderedDict raises KeyError inside the except handler.
cache_set(cache, key, value, maxsize) ==
    IF Contains(cache, key)
    THEN [cache |-> Append(RemoveAt(cache, IndexOf(cache, key)), <<key, value>>),
          raised |-> FALSE]
    ELSE IF Len(cache) >= maxsize
         THEN IF Len(cache) = 0
              THEN [cache |-> cache, raised |-> TRUE]
              ELSE [cache |-> Append(Tail(cache), <<key, value>>), raised |-> FALSE]
         ELSE [cache |-> Append(cache, <<key, value>>), raised |-> FALSE]

\* ---------------------------------------------------------------- helpers
Keys(cache) == {cache[i][1] : i \in 1..Len(cache)}
Entries(cache) == {cache[i] : i \in 1..Len(cache)}
KeyOrder(cache) == [i \in 1..Len(cache) |-> cache[i][1]]
Batches(kind) == UNION {[1..n -> Items(kind)] : n \in 0..MaxBatch}

\* ------------------------------------------------------------------ state
VARIABLES
    maxsize,    \* LRUCache.maxsize, the same for both caches
    caches,     \* [text |-> self.text_cache.cache, image |-> self.image_cache.cache]
    req,        \* per thread: the frame of its batched embedding call
    prev,       \* the call before, when it returned and was a single-item batch
                \* (kept during the next call only if that call repeats the batch)
    ops,        \* the last two operations a direct client ran on the LRUCache
    used        \* the keys that client used, ordered by their last Set or Get hit

vars == <<maxsize, caches, req, prev, ops, used>>

Threads == {"t1", "t2"}
MainThread == "t1"

IdleFrame ==
    [pc |-> "idle", kind |-> "text", input |-> <<>>, idx |-> 1,
     results |-> <<>>, uncached_items |-> <<>>, uncached_indices |-> <<>>,
     features |-> <<>>, i |-> 1, computes |-> <<>>, entry |-> <<>>,
     queried |-> <<>>, ids |-> <<>>, stored |-> <<>>, value |-> <<>>,
     error |-> ""]

\* Python object identity, as far as one call can tell objects apart: the
\* list a store held under a key when the call began is <<"old", 0>>, the
\* list the model returned for the i-th miss is <<"new", i>>.  A frame keeps
\* in ids the object in each result slot and in stored, per miss, the key it
\* was stored under.
OldObject == <<"old", 0>>
NewObject(i) == <<"new", i>>
NoObject == <<"none", 0>>
\* The object a store holds under a key: the one of the last cache_set of
\* this call under that key, else the one it held before.
HeldObject(f, key) ==
    IF \E i \in 1..Len(f.stored) : f.stored[i] = key
    THEN NewObject(CHOOSE i \in 1..Len(f.stored) :
                       /\ f.stored[i] = key
                       /\ \A k \in (i + 1)..Len(f.stored) : f.stored[k] # key)
    ELSE OldObject

NoCall == [kind |-> "none", input |-> <<>>, results |-> <<>>, ncomputes |-> 0]

\* ------------------------------------------------------------------- Init
\* _load_model: both caches empty.
InitService ==
    /\ maxsize \in 1..MaxCapacity
    /\ caches = [text |-> <<>>, image |-> <<>>]
    /\ req = [t \in Threads |-> IdleFrame]
    /\ prev = NoCall
    /\ ops = <<>>
    /\ used = <<>>

\* ------------------------------------------------- batched_*_embedding
\* Lines 85-87 / 115-117: a call starts.
Begin(t, kind, items) ==
    /\ t = MainThread
    /\ \A u \in Threads : req[u].pc = "idle"
    /\ req' = [req EXCEPT ![t] =
                 [pc |-> "split", kind |-> kind, input |-> items, idx |-> 1,
                  results |-> [j \in 1..Len(items) |-> None],
                  uncached_items |-> <<>>, uncached_indices |-> <<>>,
                  features |-> <<>>, i |-> 1, computes |-> <<>>,
                  entry |-> caches[kind], queried |-> <<>>,
                  ids |-> [j \in 1..Len(items) |-> NoObject], stored |-> <<>>,
                  value |-> None, error |-> ""]]
    /\ prev' = IF prev.kind = kind /\ prev.input = items THEN prev ELSE NoCall
    /\ UNCHANGED <<maxsize, caches, ops, used>>

\* Lines 89-95 / 119-126: one iteration of the split loop.
SplitStep(t) ==
    LET f == req[t]
        item == f.input[f.idx]
        key == Key(f.kind, item)
        cached_result == cache_get_value(caches[f.kind], key)
        present == key \in Keys(caches[f.kind])
    IN  /\ f.pc = "split"
        /\ f.idx <= Len(f.input)
        /\ caches' = [caches EXCEPT ![f.kind] = cache_get(caches[f.kind], key)]
        /\ req' = [req EXCEPT ![t] =
                     IF cached_result # None
                     THEN [f EXCEPT !.results[f.idx] = cached_result,
                                    !.ids[f.idx] = HeldObject(f, key),
                                    !.queried = Append(@, present),
                                    !.idx = f.idx + 1]
                     ELSE [f EXCEPT !.uncached_items = Append(@, item),
                                    !.uncached_indices = Append(@, f.idx),
                                    !.queried = Append(@, present),
                                    !.idx = f.idx + 1]]
        /\ UNCHANGED <<maxsize, prev, ops, used>>

\* The return without the "if uncached_texts" test before the model call.
ReturnHits_computes(t) ==
    LET f == req[t]
    IN  /\ f.pc = "split"
        /\ f.idx > Len(f.input)
        /\ f.uncached_items = <<>>
        /\ req' = [req EXCEPT ![t].pc = "returned",
                              ![t].computes = Append(@, f.uncached_items)]
        /\ UNCHANGED <<maxsize, caches, prev, ops, used>>

\* Lines 97, 112 / 128, 148: nothing to compute, the call returns.
ReturnHits(t) ==
    LET f == req[t]
    IN  /\ f.pc = "split"
        /\ f.idx > Len(f.input)
        /\ f.uncached_items = <<>>
        /\ req' = [req EXCEPT ![t].pc = "returned"]
        /\ UNCHANGED <<maxsize, caches, prev, ops, used>>

\* What the model hands back for a batch of misses: one embedding per item
\* ("ok"), one too few ("short") or one too many ("long").
ModelOutput(items, outcome) ==
    LET full == [j \in 1..Len(items) |-> Embed(items[j])]
    IN  CASE outcome = "ok" -> full
          [] outcome = "short" -> SubSeq(full, 1, Len(items) - 1)
          [] outcome = "long" -> Append(full, <<"extra">>)

\* The model run on the whole batch instead of the misses.
Compute_whole_batch(t, outcome) ==
    LET f == req[t]
    IN  /\ f.pc = "split"
        /\ f.idx > Len(f.input)
        /\ f.uncached_items # <<>>
        /\ req' = [req EXCEPT ![t] =
                     [f EXCEPT !.computes = Append(@, f.input),
                               !.features = ModelOutput(f.input, outcome),
                               !.i = 1,
                               !.pc = "write"]]
        /\ UNCHANGED <<maxsize, caches, prev, ops, used>>

\* Lines 98-103 / 129-138: the model runs on the misses and succeeds.
Compute(t, outcome) ==
    LET f == req[t]
    IN  /\ f.pc = "split"
        /\ f.idx > Len(f.input)
        /\ f.uncached_items # <<>>
        /\ req' = [req EXCEPT ![t] =
                     [f EXCEPT !.computes = Append(@, f.uncached_items),
                               !.features = ModelOutput(f.uncached_items, outcome),
                               !.i = 1,
                               !.pc = "write"]]
        /\ UNCHANGED <<maxsize, caches, prev, ops, used>>

\* Lines 98-103 / 129-138: the model raises; the exception leaves the call.
ComputeRaises(t) ==
    LET f == req[t]
    IN  /\ f.pc = "split"
        /\ f.idx > Len(f.input)
        /\ f.uncached_items # <<>>
        /\ req' = [req EXCEPT ![t] =
                     [f EXCEPT !.computes = Append(@, f.uncached_items),
                               !.pc = "failed",
                               !.error = "ComputeError"]]
        /\ UNCHANGED <<maxsize, caches, prev, ops, used>>

\* The write-back loop without its cache_set.
WriteStep_no_store(t) ==
    LET f == req[t]
        idx == f.uncached_indices[f.i]
    IN  /\ f.pc = "write"
        /\ f.i <= Len(f.uncached_indices)
        /\ IF f.i > Len(f.features)
           THEN req' = [req EXCEPT ![t].pc = "failed",
                                   ![t].error = "IndexError"]
           ELSE req' = [req EXCEPT ![t].results[idx] = f.features[f.i],
                                   ![t].ids[idx] = NewObject(f.i),
                                   ![t].i = f.i + 1]
        /\ UNCHANGED <<maxsize, caches, prev, ops, used>>

\* The write-back loop writing every embedding to self.text_cache.
WriteStep_text_cache(t) ==
    LET f == req[t]
        idx == f.uncached_indices[f.i]
        key == Key(f.kind, f.input[idx])
        set == cache_set(caches.text, key, f.features[f.i], maxsize)
    IN  /\ f.pc = "write"
        /\ f.i <= Len(f.uncached_indices)
        /\ IF f.i > Len(f.features)
           THEN /\ req' = [req EXCEPT ![t].pc = "failed",
                                      ![t].error = "IndexError"]
                /\ UNCHANGED caches
           ELSE /\ caches' = [caches EXCEPT !.text = set.cache]
                /\ req' = [req EXCEPT ![t].results[idx] = f.features[f.i],
                                      ![t].ids[idx] = NewObject(f.i),
                                      ![t].stored = Append(@, key),
                                      ![t].i = f.i + 1]
        /\ UNCHANGED <<maxsize, prev, ops, used>>

\* Lines 105-108 / 140-144: one iteration of the write-back loop.
WriteStep(t) ==
    LET f == req[t]
        idx == f.uncached_indices[f.i]
        key == Key(f.kind, f.input[idx])
        set == cache_set(caches[f.kind], key, f.features[f.i], maxsize)
    IN  /\ f.pc = "write"
        /\ f.i <= Len(f.uncached_indices)
        /\ IF f.i > Len(f.features)
           THEN /\ req' = [req EXCEPT ![t].pc = "failed",
                                      ![t].error = "IndexError"]
                /\ UNCHANGED caches
           ELSE IF set.raised
           THEN /\ req' = [req EXCEPT ![t].pc = "failed",
                                      ![t].error = "KeyError"]
                /\ UNCHANGED caches
           ELSE /\ caches' = [caches EXCEPT ![f.kind] = set.cache]
                /\ req' = [req EXCEPT ![t].results[idx] = f.features[f.i],
                                      ![t].ids[idx] = NewObject(f.i),
                                      ![t].stored = Append(@, key),
                                      ![t].i = f.i + 1]
        /\ UNCHANGED <<maxsize, prev, ops, used>>

\* Lines 110-112 / 146-148: the loop is over, the call returns.
Return(t) ==
    LET f == req[t]
    IN  /\ f.pc = "write"
        /\ f.i > Len(f.uncached_indices)
        /\ req' = [req EXCEPT ![t].pc = "returned"]
        /\ UNCHANGED <<maxsize, caches, prev, ops, used>>

\* The call is over (its result handed to the caller, or its exception
\* raised) and its frame is dropped.
Leave(t) ==
    /\ req[t].pc \in {"returned", "failed"}
    /\ req' = [req EXCEPT ![t] = IdleFrame]
    /\ prev' = IF req[t].pc = "returned" /\ Len(req[t].input) = 1
               THEN [kind |-> req[t].kind, input |-> req[t].input,
                     results |-> req[t].results,
                     ncomputes |-> Len(req[t].computes)]
               ELSE NoCall
    /\ UNCHANGED <<maxsize, caches, ops, used>>

batched_text_embedding(t) == \E text \in Batches("text") : Begin(t, "text", text)
batched_image_embedding(t) == \E image \in Batches("image") : Begin(t, "image", image)

Next ==
    \E t \in Threads :
        \/ batched_text_embedding(t)
        \/ batched_image_embedding(t)
        \/ SplitStep(t)
        \/ ReturnHits(t)
        \/ \E outcome \in {"ok", "short", "long"} : Compute(t, outcome)
        \/ ComputeRaises(t)
        \/ WriteStep(t)
        \/ Return(t)
        \/ Leave(t)

Spec == InitService /\ [][Next]_vars

\* ------------------------------------- a caller that edits what it got
\* The caller changes, in place, the list in slot j of the result it was
\* handed (results[j].append(...), results[j][0] = ...).  Every reference to
\* that list object sees the change: the result slots holding it (line 92:
\* results[idx] = cached_result) and the store, when the entry under the
\* slot's key is that object (lines 107-108: the list given to cache_set is
\* the one put in results).
Mutate(value) == <<"mutated", value[2]>>
IsMutated(value) == value[1] = "mutated"

SameObject(f, j, k) ==
    /\ Key(f.kind, f.input[j]) = Key(f.kind, f.input[k])
    /\ f.ids[j] = f.ids[k]

StoreHolds(f, cache, j) ==
    /\ Contains(cache, Key(f.kind, f.input[j]))
    /\ HeldObject(f, Key(f.kind, f.input[j])) = f.ids[j]

CallerMutates(t, j) ==
    LET f == req[t]
        key == Key(f.kind, f.input[j])
        cache == caches[f.kind]
    IN  /\ f.pc = "returned"
        /\ j \in 1..Len(f.results)
        /\ ~IsMutated(f.results[j])
        /\ req' = [req EXCEPT ![t].results =
                     [k \in 1..Len(f.results) |->
                        IF SameObject(f, j, k) THEN Mutate(f.results[k])
                        ELSE f.results[k]]]
        /\ caches' = [caches EXCEPT ![f.kind] =
                        IF StoreHolds(f, cache, j)
                        THEN [i \in 1..Len(cache) |->
                                IF cache[i][1] = key
                                THEN <<key, Mutate(cache[i][2])>>
                                ELSE cache[i]]
                        ELSE cache]
        /\ UNCHANGED <<maxsize, prev, ops, used>>

NextAlias ==
    \/ Next
    \/ \E t \in Threads, j \in 1..MaxBatch : CallerMutates(t, j)

SpecAlias == InitService /\ [][NextAlias]_vars

\* ------------------------------------------------- concurrent requests
\* Two threads run batched_text_embedding on the one text cache.  Neither
\* LRUCache nor the model class takes a lock, so a thread switch can fall
\* between any two of the dictionary operations of cache_get and cache_set;
\* each single OrderedDict operation is atomic.  The capacity exceeds the
\* number of threads, as the service's 100 does.
InitConc ==
    /\ maxsize \in Cardinality(Threads)..MaxCapacity
    /\ caches = [text |-> <<>>, image |-> <<>>]
    /\ req = [t \in Threads |-> IdleFrame]
    /\ prev = NoCall
    /\ ops = <<>>
    /\ used = <<>>

\* self.cache[key] = value: an existing key keeps its place.
setitem(cache, key, value) ==
    IF Contains(cache, key)
    THEN [cache EXCEPT ![IndexOf(cache, key)] = <<key, value>>]
    ELSE Append(cache, <<key, value>>)

\* Lines 85-87: a call starts, whatever the other thread is doing.  (No
\* snapshot of the store is kept in entry: the other thread changes the
\* store during the call.)
BeginConc(t, items) ==
    /\ req[t].pc = "idle"
    /\ req' = [req EXCEPT ![t] =
                 [pc |-> "split", kind |-> "text", input |-> items, idx |-> 1,
                  results |-> [j \in 1..Len(items) |-> None],
                  uncached_items |-> <<>>, uncached_indices |-> <<>>,
                  features |-> <<>>, i |-> 1, computes |-> <<>>,
                  entry |-> <<>>, queried |-> <<>>,
                  ids |-> [j \in 1..Len(items) |-> NoObject], stored |-> <<>>,
                  value |-> None, error |-> ""]]
    /\ UNCHANGED <<maxsize, caches, prev, ops, used>>

\* Line 16 (from line 90): value = self.cache.pop(key); on KeyError
\* cache_get returns None and lines 93-95 note the miss.
GetPop(t) ==
    LET f == req[t]
        item == f.input[f.idx]
        key == Key(f.kind, item)
        cache == caches[f.kind]
    IN  /\ f.pc = "split"
        /\ f.idx <= Len(f.input)
        /\ IF Contains(cache, key)
           THEN /\ caches' = [caches EXCEPT ![f.kind] =
                                RemoveAt(cache, IndexOf(cache, key))]
                /\ req' = [req EXCEPT ![t].value = Lookup(cache, key),
                                      ![t].pc = "reinsert"]
           ELSE /\ req' = [req EXCEPT ![t] =
                             [f EXCEPT !.uncached_items = Append(@, item),
                                       !.uncached_indices = Append(@, f.idx),
                                       !.queried = Append(@, FALSE),
                                       !.idx = f.idx + 1]]
                /\ UNCHANGED caches
        /\ UNCHANGED <<maxsize, prev, ops, used>>

\* Lines 18-19, 91-92: self.cache[key] = value; the hit goes to results.
GetReinsert(t) ==
    LET f == req[t]
        key == Key(f.kind, f.input[f.idx])
    IN  /\ f.pc = "reinsert"
        /\ caches' = [caches EXCEPT ![f.kind] = setitem(caches[f.kind], key, f.value)]
        /\ req' = [req EXCEPT ![t] =
                     [f EXCEPT !.results[f.idx] = f.value,
                               !.queried = Append(@, TRUE),
                               !.value = None,
                               !.idx = f.idx + 1,
                               !.pc = "split"]]
        /\ UNCHANGED <<maxsize, prev, ops, used>>

\* Lines 105-106, 25: embedding = text_features_list[i]; self.cache.pop(key).
SetPop(t) ==
    LET f == req[t]
        key == Key(f.kind, f.input[f.uncached_indices[f.i]])
        cache == caches[f.kind]
    IN  /\ f.pc = "write"
        /\ f.i <= Len(f.uncached_indices)
        /\ IF f.i > Len(f.features)
           THEN /\ req' = [req EXCEPT ![t].pc = "failed",
                                      ![t].error = "IndexError"]
                /\ UNCHANGED caches
           ELSE IF Contains(cache, key)
           THEN /\ caches' = [caches EXCEPT ![f.kind] =
                                RemoveAt(cache, IndexOf(cache, key))]
                /\ req' = [req EXCEPT ![t].pc = "store"]
           ELSE /\ req' = [req EXCEPT ![t].pc = "check"]
                /\ UNCHANGED caches
        /\ UNCHANGED <<maxsize, prev, ops, used>>

\* Line 27: if len(self.cache) >= self.maxsize.
SetCheck(t) ==
    /\ req[t].pc = "check"
    /\ req' = [req EXCEPT ![t].pc =
                 IF Len(caches[req[t].kind]) >= maxsize THEN "evict" ELSE "store"]
    /\ UNCHANGED <<maxsize, caches, prev, ops, used>>

\* Line 28: self.cache.popitem(last=False).
SetEvict(t) ==
    LET f == req[t]
    IN  /\ f.pc = "evict"
        /\ IF caches[f.kind] = <<>>
           THEN /\ req' = [req EXCEPT ![t].pc = "failed", ![t].error = "KeyError"]
                /\ UNCHANGED caches
           ELSE /\ caches' = [caches EXCEPT ![f.kind] = Tail(@)]
                /\ req' = [req EXCEPT ![t].pc = "store"]
        /\ UNCHANGED <<maxsize, prev, ops, used>>

\* The store step with the cache write left out.
SetStore_no_store(t) ==
    LET f == req[t]
        idx == f.uncached_indices[f.i]
    IN  /\ f.pc = "store"
        /\ req' = [req EXCEPT ![t] =
                     [f EXCEPT !.results[idx] = f.features[f.i],
                               !.i = f.i + 1,
                               !.pc = "write"]]
        /\ UNCHANGED <<maxsize, caches, prev, ops, used>>

\* Lines 29, 108: self.cache[key] = value; results[idx] = embedding.
SetStore(t) ==
    LET f == req[t]
        idx == f.uncached_indices[f.i]
        key == Key(f.kind, f.input[idx])
    IN  /\ f.pc = "store"
        /\ caches' = [caches EXCEPT ![f.kind] =
                        setitem(caches[f.kind], key, f.features[f.i])]
        /\ req' = [req EXCEPT ![t] =
                     [f EXCEPT !.results[idx] = f.features[f.i],
                               !.i = f.i + 1,
                               !.pc = "write"]]
        /\ UNCHANGED <<maxsize, prev, ops, used>>

\* The call is over and its frame is dropped.
LeaveConc(t) ==
    /\ req[t].pc \in {"returned", "failed"}
    /\ req' = [req EXCEPT ![t] = IdleFrame]
    /\ UNCHANGED <<maxsize, caches, prev, ops, used>>

ConcBatches == UNION {[1..n -> Texts] : n \in 0..MaxConcBatch}

NextConc ==
    \E t \in Threads :
        \/ \E text \in ConcBatches : BeginConc(t, text)
        \/ GetPop(t)
        \/ GetReinsert(t)
        \/ ReturnHits(t)
        \/ Compute(t, "ok")
        \/ SetPop(t)
        \/ SetCheck(t)
        \/ SetEvict(t)
        \/ SetStore(t)
        \/ Return(t)
        \/ LeaveConc(t)

SpecConc == InitConc /\ [][NextConc]_vars

\* ------------------------------------------- LRUCache used directly
InitLRU ==
    /\ maxsize \in 0..MaxCapacity
    /\ caches = [text |-> <<>>, image |-> <<>>]
    /\ req = [t \in Threads |-> IdleFrame]
    /\ prev = NoCall
    /\ ops = <<>>
    /\ used = <<>>

\* The history of a direct client: the operation just run joins ops, which
\* keeps the last two; the key moves to the end of used.
Record(o) == IF Len(ops) < 2 THEN Append(ops, o) ELSE <<ops[2], o>>
Touch(key) == Append(SelectSeq(used, LAMBDA k : k # key), key)

Get(key) ==
    /\ caches' = [caches EXCEPT !.text = cache_get(caches.text, key)]
    /\ ops' = Record([name |-> "get", key |-> key, value |-> None,
                      before |-> caches.text, used |-> used,
                      ret |-> cache_get_value(caches.text, key),
                      raised |-> FALSE])
    /\ used' = IF key \in Keys(caches.text) THEN Touch(key) ELSE used
    /\ UNCHANGED <<maxsize, req, prev>>

Set(key, value) ==
    LET set == cache_set(caches.text, key, value, maxsize)
    IN  /\ caches' = [caches EXCEPT !.text = set.cache]
        /\ ops' = Record([name |-> "set", key |-> key, value |-> value,
                          before |-> caches.text, used |-> used,
                          ret |-> None, raised |-> set.raised])
        /\ used' = IF set.raised THEN used ELSE Touch(key)
        /\ UNCHANGED <<maxsize, req, prev>>

NextLRU ==
    \/ \E key \in Texts : Get(key)
    \/ \E key \in Texts, value \in Values : Set(key, value)

SpecLRU == InitLRU /\ [][NextLRU]_vars

\* ================================================================ claims
Returned(t) == req[t].pc = "returned"
\* The last and the one-before-last operation of the direct client.
LastOp == ops[Len(ops)]
PriorOp == ops[Len(ops) - 1]
\* The least-recently-used key of a store: among the keys it holds, the one
\* whose last Set or Get hit is oldest in the client's history.
OldestUsed(cache, history) ==
    history[CHOOSE i \in 1..Len(history) :
                /\ history[i] \in Keys(cache)
                /\ \A j \in 1..(i - 1) : history[j] \notin Keys(cache)]
\* A store without one of its keys, the other entries in their order.
Without(cache, key) == SelectSeq(cache, LAMBDA e : e[1] # key)

\* C1: a batched embedding call that returns hands back one element per
\* input item, and element i is the embedding of input item i.
OrderPreserved ==
    \A t \in Threads :
        Returned(t) =>
            /\ Len(req[t].results) = Len(req[t].input)
            /\ \A j \in 1..Len(req[t].input) :
                   req[t].results[j] = Embed(req[t].input[j])

\* The same statement for batched_text_embedding alone, where the key is the
\* item itself.
TextOrderPreserved ==
    \A t \in Threads :
        (Returned(t) /\ req[t].kind = "text") =>
            /\ Len(req[t].results) = Len(req[t].input)
            /\ \A j \in 1..Len(req[t].input) :
                   req[t].results[j] = Embed(req[t].input[j])

\* C2: whatever cache_set and cache_get operations have completed, the store
\* holds at most maxsize entries, and no operation changes maxsize.
CapacityInvariant ==
    /\ [](Len(caches.text) <= maxsize)
    /\ [][maxsize' = maxsize]_vars

\* A cache_set of an absent key has just completed on a full store.
C2Witness ==
    /\ ops # <<>>
    /\ LastOp.name = "set"
    /\ ~LastOp.raised
    /\ LastOp.key \notin Keys(LastOp.before)
    /\ Len(LastOp.before) = maxsize
    /\ Len(caches.text) = maxsize

\* C3: cache_set of an absent key on a store of capacity C >= 1 holding C
\* entries removes the least-recently-used key and nothing else, the other
\* entries keeping value and order; below C entries it removes nothing.
LRUEviction ==
    (/\ ops # <<>>
     /\ LastOp.name = "set"
     /\ LastOp.key \notin Keys(LastOp.before)
     /\ maxsize >= 1)
    => IF Len(LastOp.before) = maxsize
       THEN caches.text =
                Append(Without(LastOp.before,
                               OldestUsed(LastOp.before, LastOp.used)),
                       <<LastOp.key, LastOp.value>>)
       ELSE caches.text = Append(LastOp.before, <<LastOp.key, LastOp.value>>)

\* An absent key was set on a full store of two entries whose older entry
\* had been refreshed, so that insertion order and recency order differ.
C3Witness ==
    /\ Len(ops) = 2
    /\ LastOp.name = "set"
    /\ LastOp.key \notin Keys(LastOp.before)
    /\ maxsize >= 2
    /\ Len(LastOp.before) = maxsize
    /\ PriorOp.name = "get"
    /\ PriorOp.ret # None
    /\ Len(caches.text) = maxsize
    /\ OldestUsed(LastOp.before, LastOp.used) \notin Keys(caches.text)

\* C4: on a full store of capacity C >= 2 whose least-recently-used key is
\* k1 and next one k2, cache_get(k1) followed by cache_set of a new key
\* evicts k2 and keeps k1.
RecencyRefresh ==
    (/\ Len(ops) = 2
     /\ maxsize >= 2
     /\ PriorOp.name = "get"
     /\ Len(PriorOp.before) = maxsize
     /\ PriorOp.key = PriorOp.before[1][1]
     /\ LastOp.name = "set"
     /\ LastOp.key \notin Keys(PriorOp.before))
    => /\ PriorOp.ret = PriorOp.before[1][2]
       /\ PriorOp.before[2][1] \notin Keys(caches.text)
       /\ PriorOp.key \in Keys(caches.text)
       /\ Keys(caches.text) =
              (Keys(PriorOp.before) \ {PriorOp.before[2][1]}) \cup {LastOp.key}

C4Witness ==
    /\ Len(ops) = 2
    /\ maxsize >= 2
    /\ PriorOp.name = "get"
    /\ Len(PriorOp.before) = maxsize
    /\ PriorOp.key = PriorOp.before[1][1]
    /\ LastOp.name = "set"
    /\ LastOp.key \notin Keys(PriorOp.before)
    /\ PriorOp.key \in Keys(caches.text)

\* C5: cache_set of a key the store holds replaces its value, makes it the
\* most-recently-used entry, and leaves the other entries and their number
\* as they were, also on a full store.
OverwriteOnSet ==
    (/\ ops # <<>>
     /\ LastOp.name = "set"
     /\ LastOp.key \in Keys(LastOp.before))
    => /\ ~LastOp.raised
       /\ Len(caches.text) = Len(LastOp.before)
       /\ caches.text[Len(caches.text)] = <<LastOp.key, LastOp.value>>
       /\ Without(caches.text, LastOp.key) = Without(LastOp.before, LastOp.key)

\* A key held by a full store was set to a value other than the one it had.
C5Witness ==
    /\ ops # <<>>
    /\ LastOp.name = "set"
    /\ LastOp.key \in Keys(LastOp.before)
    /\ maxsize >= 2
    /\ Len(LastOp.before) = maxsize
    /\ LastOp.before[1][1] = LastOp.key
    /\ LastOp.before[1][2] # LastOp.value
    /\ caches.text[Len(caches.text)] = <<LastOp.key, LastOp.value>>

\* The indices of a call's input whose key the cache did not hold when the
\* split pass queried it, in input order, and the items at those indices.
MissIndices(f) ==
    SelectSeq([j \in 1..Len(f.queried) |-> j], LAMBDA j : ~f.queried[j])
MissItems(f) ==
    [k \in 1..Len(MissIndices(f)) |-> f.input[MissIndices(f)[k]]]

\* C6: one call invokes the model at most once, on exactly the items whose
\* key was absent when queried, in input order and with their indices kept,
\* and not at all when every item is a hit.
ComputeOnlyMisses ==
    \A t \in Threads :
        LET f == req[t]
        IN  /\ Len(f.computes) <= 1
            /\ f.computes # <<>> =>
                   /\ f.computes[1] = MissItems(f)
                   /\ f.uncached_indices = MissIndices(f)
                   /\ MissItems(f) # <<>>
            /\ (Returned(t) /\ MissIndices(f) = <<>>) => f.computes = <<>>

\* A call with a hit between two misses has invoked the model.
C6Witness ==
    \E t \in Threads :
        /\ Returned(t)
        /\ req[t].queried = <<FALSE, TRUE, FALSE>>
        /\ req[t].computes = <<<<req[t].input[1], req[t].input[3]>>>>

\* C7: two consecutive single-item calls with the same item return the same
\* result, and the second one does not invoke the model.
Idempotence ==
    \A t \in Threads :
        (/\ Returned(t)
         /\ prev.kind = req[t].kind
         /\ prev.input = req[t].input)
        => /\ req[t].results = prev.results
           /\ req[t].computes = <<>>

\* The first of the two calls computed the item, the second returned.
C7Witness ==
    \E t \in Threads :
        /\ Returned(t)
        /\ prev.kind = req[t].kind
        /\ prev.input = req[t].input
        /\ prev.ncomputes = 1
        /\ req[t].results = prev.results

\* C8: when the model computation raises, the call fails and the cache holds
\* the keys and values it held when the call began.
ComputeFailureLeavesCache ==
    \A t \in Threads :
        (req[t].pc = "failed" /\ req[t].error = "ComputeError")
        => /\ Entries(caches[req[t].kind]) = Entries(req[t].entry)
           /\ \A k \in 1..Len(req[t].uncached_indices) :
                  req[t].results[req[t].uncached_indices[k]] = None

\* The call that failed had a hit, which moved an entry of the store.
C8Witness ==
    \E t \in Threads :
        /\ req[t].pc = "failed"
        /\ req[t].error = "ComputeError"
        /\ \E j \in 1..Len(req[t].queried) : req[t].queried[j]
        /\ caches[req[t].kind] # req[t].entry

\* C9: a call whose model computation returned a number of values other
\* than the number of misses never returns.
ContractViolationFatal ==
    \A t \in Threads :
        Returned(t) => Len(req[t].features) = Len(req[t].uncached_items)

\* C10: capacity 2, the store holding only "a"; the batch <<"a", "b", "a">>
\* returns the cached value, the embedding of "b" and the cached value, after
\* one model invocation on <<"b">>, and the store then holds both entries.
PartialHitPremise(t) ==
    /\ Returned(t)
    /\ maxsize = 2
    /\ req[t].kind = "text"
    /\ req[t].input = <<"a", "b", "a">>
    /\ Len(req[t].entry) = 1
    /\ req[t].entry[1][1] = "a"

PartialHitBatch ==
    \A t \in Threads :
        PartialHitPremise(t) =>
            LET v == req[t].entry[1][2]
            IN  /\ req[t].results = <<v, Embed("b"), v>>
                /\ req[t].computes = <<<<"b">>>>
                /\ caches.text = <<<<"a", v>>, <<"b", Embed("b")>>>>

C10Witness == \E t \in Threads : PartialHitPremise(t)

\* The key of the j-th input item of a call, and how many entries a store
\* holds under one key.
KeyAt(f, j) == Key(f.kind, f.input[j])
Count(cache, key) == Cardinality({i \in 1..Len(cache) : cache[i][1] = key})
BatchKeys(f) == {KeyAt(f, j) : j \in 1..Len(f.input)}

\* What C11 says of the split pass: occurrences of one key are classified
\* alike, and all are misses, handed to the model, when the key was not
\* cached as the call began.
SameClassification(f) ==
    /\ \A j, k \in 1..Len(f.queried) :
           KeyAt(f, j) = KeyAt(f, k) => f.queried[j] = f.queried[k]
    /\ \A j \in 1..Len(f.queried) :
           KeyAt(f, j) \notin Keys(f.entry) =>
               /\ ~f.queried[j]
               /\ \E k \in 1..Len(f.uncached_indices) :
                      f.uncached_indices[k] = j /\ f.uncached_items[k] = f.input[j]
    /\ f.computes # <<>> => f.computes[1] = f.uncached_items

\* C11 as stated, for batched_text_embedding: the occurrences of a key not
\* cached at the start are all misses, all computed, their output slots hold
\* equal values, and the store then holds exactly one entry for the key.
DuplicateMissesAsStated ==
    \A t \in Threads :
        LET f == req[t]
        IN  /\ SameClassification(f)
            /\ (Returned(t) /\ f.kind = "text") =>
                   \A j, k \in 1..Len(f.input) :
                       (/\ j # k
                        /\ KeyAt(f, j) = KeyAt(f, k)
                        /\ KeyAt(f, j) \notin Keys(f.entry))
                       => /\ f.results[j] = f.results[k]
                          /\ Count(caches[f.kind], KeyAt(f, j)) = 1

\* C11 amended: the store holds at most one entry for the key, and exactly
\* one when the distinct keys of the batch number at most maxsize (later
\* misses of the batch may evict it otherwise).
DuplicateMisses ==
    \A t \in Threads :
        LET f == req[t]
        IN  /\ SameClassification(f)
            /\ (Returned(t) /\ f.kind = "text") =>
                   \A j, k \in 1..Len(f.input) :
                       (/\ j # k
                        /\ KeyAt(f, j) = KeyAt(f, k)
                        /\ KeyAt(f, j) \notin Keys(f.entry))
                       => /\ f.results[j] = f.results[k]
                          /\ Count(caches[f.kind], KeyAt(f, j)) <= 1
                          /\ Cardinality(BatchKeys(f)) <= maxsize =>
                                 Count(caches[f.kind], KeyAt(f, j)) = 1

\* A returned call whose batch held the same uncached item twice.
C11Witness ==
    \E t \in Threads :
        /\ Returned(t)
        /\ req[t].kind = "text"
        /\ \E j, k \in 1..Len(req[t].input) :
               /\ j < k
               /\ req[t].input[j] = req[t].input[k]
               /\ KeyAt(req[t], j) \notin Keys(req[t].entry)
               /\ req[t].computes = <<req[t].input>>
               /\ Count(caches[req[t].kind], KeyAt(req[t], j)) = 1

\* C12: a call with an empty batch returns an empty list, invokes the model
\* zero times, queries and writes no cache, and leaves both caches as they
\* were, order included.
ZeroLengthBatch ==
    /\ [](\A t \in Threads :
              (Returned(t) /\ req[t].input = <<>>) =>
                  /\ req[t].results = <<>>
                  /\ req[t].computes = <<>>
                  /\ req[t].queried = <<>>
                  /\ caches[req[t].kind] = req[t].entry)
    /\ [][(\E t \in Threads :
               /\ req'[t].pc \in {"split", "returned"}
               /\ req'[t].input = <<>>)
          => caches' = caches]_vars

\* An empty batch has returned while both caches held entries.
C12Witness ==
    \E t \in Threads :
        /\ Returned(t)
        /\ req[t].input = <<>>
        /\ caches.text # <<>>
        /\ caches.image # <<>>

\* C13: what a call returns is never the list object the store holds, so
\* that nothing a caller does to a returned list changes a stored value.
NoAliasing ==
    \A kind \in Kinds :
        \A i \in 1..Len(caches[kind]) : ~IsMutated(caches[kind][i][2])

\* No cache_get or cache_set is under way in any thread.
Quiescent == \A t \in Threads : req[t].pc \in {"idle", "split", "write", "returned", "failed"}
\* Thread u has popped key in cache_get and not yet put it back.
Refreshing(u, key) ==
    /\ req[u].pc = "reinsert"
    /\ Key(req[u].kind, req[u].input[req[u].idx]) = key

\* C14: with requests running concurrently on one LRUCache, once the cache
\* operations under way have completed the store holds at most maxsize
\* entries, and no cache_get reports as a miss a key that another cache_get
\* is refreshing.
StoreWideMutualExclusion ==
    /\ [](Quiescent => Len(caches.text) <= maxsize)
    /\ [][\A t, u \in Threads :
              (/\ t # u
               /\ Len(req'[t].uncached_items) > Len(req[t].uncached_items))
              => ~Refreshing(u, Key(req[t].kind, req[t].input[req[t].idx]))]_vars

\* C15: two overlapping requests for the same uncached text both classify it
\* as a miss and both invoke the model; each returns the item's embedding,
\* and afterwards the store holds one entry for the key, with that embedding.
ConcurrentMissPremise(t, u) ==
    /\ t # u
    /\ Returned(t)
    /\ Returned(u)
    /\ Len(req[t].input) = 1
    /\ req[u].input = req[t].input
    /\ req[t].queried = <<FALSE>>
    /\ req[u].queried = <<FALSE>>

ConcurrentMisses ==
    \A t, u \in Threads :
        ConcurrentMissPremise(t, u) =>
            LET x == req[t].input[1]
            IN  /\ req[t].computes = <<<<x>>>>
                /\ req[u].computes = <<<<x>>>>
                /\ req[t].results = <<Embed(x)>>
                /\ req[u].results = <<Embed(x)>>
                /\ Count(caches.text, x) = 1
                /\ Lookup(caches.text, x) = Embed(x)

\* Both requests missed and have returned, the store being full.
C15Witness ==
    \E t, u \in Threads :
        /\ ConcurrentMissPremise(t, u)
        /\ Len(caches.text) >= maxsize
        /\ Count(caches.text, req[t].input[1]) = 1

\* C16: cache_get changes neither the keys nor the values of the store; on
\* an absent key it returns None and leaves the store as it was, on a present
\* key it returns the stored value and moves that key alone, to the end.
FrameOfGet ==
    (ops # <<>> /\ LastOp.name = "get") =>
        /\ Entries(caches.text) = Entries(LastOp.before)
        /\ Len(caches.text) = Len(LastOp.before)
        /\ IF LastOp.key \notin Keys(LastOp.before)
           THEN /\ LastOp.ret = None
                /\ caches.text = LastOp.before
           ELSE /\ <<LastOp.key, LastOp.ret>> \in Entries(LastOp.before)
                /\ caches.text[Len(caches.text)] = <<LastOp.key, LastOp.ret>>
                /\ Without(caches.text, LastOp.key) =
                       Without(LastOp.before, LastOp.key)

\* A cache_get hit on the oldest of at least two entries.
C16Witness ==
    /\ ops # <<>>
    /\ LastOp.name = "get"
    /\ Len(LastOp.before) >= 2
    /\ LastOp.key = LastOp.before[1][1]
    /\ caches.text # LastOp.before

\* C17: every step of a batched_text_embedding call leaves the image cache
\* as it was, order included, and every step of a batched_image_embedding
\* call leaves the text cache as it was; so one call changes one store only.
CachesIndependent ==
    [][\A t \in Threads :
           req'[t].pc # "idle" =>
               /\ req'[t].kind = "text" => caches'.image = caches.image
               /\ req'[t].kind = "image" => caches'.text = caches.text]_vars

\* An image call that missed has written to the image cache and returned,
\* while the text cache held entries.
C17Witness ==
    \E t \in Threads :
        /\ Returned(t)
        /\ req[t].kind = "image"
        /\ Entries(caches.image) # Entries(req[t].entry)
        /\ \E j \in 1..Len(req[t].queried) : req[t].queried[j]
        /\ caches.text # <<>>

\* C18: no cache_get or cache_set on an LRUCache raises, whatever the
\* capacity, the capacities 0 and 1 included.
NoErrorConditions ==
    ops # <<>> => ~LastOp.raised

\* C19: every entry (k, v) of a cache holds as v the embedding of every item
\* whose key is k, and a call that returned gave for every position, hit or
\* miss, the embedding a fresh computation of that item gives.
CacheCoherence ==
    /\ \A kind \in Kinds : \A e \in Entries(caches[kind]) :
           \A item \in Items(kind) :
               Key(kind, item) = e[1] => e[2] = Embed(item)
    /\ \A t \in Threads :
           Returned(t) =>
               \A j \in 1..Len(req[t].input) :
                   req[t].results[j] = Embed(req[t].input[j])

\* The same statement for the text cache alone, where the key is the item.
TextCacheCoherence ==
    /\ \A e \in Entries(caches.text) :
           \A item \in Texts : Key("text", item) = e[1] => e[2] = Embed(item)
    /\ \A t \in Threads :
           (Returned(t) /\ req[t].kind = "text") =>
               \A j \in 1..Len(req[t].input) :
                   req[t].results[j] = Embed(req[t].input[j])

\* The miss keys of a call in order of last occurrence, each once.
RECURSIVE LastDistinct(_)
LastDistinct(keys) ==
    IF keys = <<>> THEN <<>>
    ELSE LET head == keys[1]
             rest == SubSeq(keys, 2, Len(keys))
         IN  IF \E j \in 1..Len(rest) : rest[j] = head
             THEN LastDistinct(rest)
             ELSE <<head>> \o LastDistinct(rest)

MissKeys(f) ==
    [j \in 1..Len(f.uncached_items) |-> Key(f.kind, f.uncached_items[j])]

Min(a, b) == IF a <= b THEN a ELSE b

\* C20: after a call with at least one miss has returned, the key of the last
\* miss is in the cache and is the most recently used; the last
\* min(maxsize, d) distinct miss keys by last occurrence are the newest
\* entries of the cache in that order; and when the distinct keys of the
\* batch are no more than maxsize, every key of the batch is in the cache.
PostBatchContents ==
    \A t \in Threads :
        LET f == req[t]
            c == caches[f.kind]
            m == LastDistinct(MissKeys(f))
            n == Min(maxsize, Len(m))
        IN  (Returned(t) /\ f.uncached_items # <<>>) =>
                /\ c # <<>>
                /\ c[Len(c)][1] = m[Len(m)]
                /\ Len(c) >= n
                /\ \A j \in 1..n : c[Len(c) - n + j][1] = m[Len(m) - n + j]
                /\ Cardinality(BatchKeys(f)) <= maxsize =>
                       BatchKeys(f) \subseteq Keys(c)

\* A call returned with more distinct miss keys than the capacity, one of
\* them repeated, so that an earlier miss of the same call was evicted.
C20Witness ==
    \E t \in Threads :
        LET f == req[t]
            m == LastDistinct(MissKeys(f))
        IN  /\ Returned(t)
            /\ Len(f.features) = Len(f.uncached_items)
            /\ Len(m) > maxsize
            /\ Len(m) < Len(f.uncached_items)
            /\ ~(BatchKeys(f) \subseteq Keys(caches[f.kind]))

====
